---- MODULE Spec2Model ----
(***************************************************************************)
(* Model of src/app/api/simular/route.ts: the POST handler of /api/simular *)
(* (validation, geometric-brownian-motion simulation, per-step statistics, *)
(* value at risk) and its helpers gaussianRandom, mean and percentile.     *)
(*                                                                         *)
(* JavaScript numbers are binary floating-point values.  They are modelled *)
(* as records [m, e] standing for m * 2^e, with a significand of Precision *)
(* bits and round-to-nearest, ties-to-even, after every operation (the     *)
(* exponent is unbounded: no overflow to Infinity, no underflow, no NaN).  *)
(*                                                                         *)
(* Spec follows one invocation of POST, SpecRepetir two invocations with   *)
(* the same body and the same random sequence, SpecPuro calls of mean and  *)
(* percentile on their own.  The GET handler (a constant 405 response) is  *)
(* not part of the model.                                                  *)
(***************************************************************************)
EXTENDS Integers, Sequences, FiniteSets, TLC

\* Bits of significand of a number (53 in an IEEE double).
Precision == 14

----------------------------------------------------------------------------
\* Floating-point arithmetic

Pow2Table ==
  << 1, 2, 4, 8, 16, 32, 64, 128, 256, 512, 1024, 2048, 4096, 8192, 16384,
     32768, 65536, 131072, 262144, 524288, 1048576, 2097152, 4194304,
     8388608, 16777216, 33554432, 67108864, 134217728, 268435456,
     536870912, 1073741824 >>

\* 2^k, 0 <= k <= 30
Pow2(k) == Pow2Table[k + 1]

\* The number of bits of n, 0 <= n < 2^31, by bisection.
BitLen2(n) == IF n >= 4 THEN (IF n >= 8 THEN 4 ELSE 3)
              ELSE IF n >= 2 THEN 2 ELSE n

BitLen4(n) == IF n >= 16 THEN 4 + BitLen2(n \div 16) ELSE BitLen2(n)

BitLen8(n) == IF n >= 256 THEN 8 + BitLen4(n \div 256) ELSE BitLen4(n)

BitLen(n) == IF n >= 65536 THEN 16 + BitLen8(n \div 65536) ELSE BitLen8(n)

Abs(n) == IF n < 0 THEN -n ELSE n

Sgn(n) == IF n < 0 THEN -1 ELSE IF n = 0 THEN 0 ELSE 1

\* The canonical record of m * 2^e: m odd, or zero.
RECURSIVE Canon(_, _)
Canon(m, e) ==
  IF m = 0 THEN [m |-> 0, e |-> 0]
  ELSE IF m % 2 = 0 THEN Canon(m \div 2, e + 1)
  ELSE [m |-> m, e |-> e]

\* a * 2^e (a >= 0, plus a non-zero tail below the last bit when sticky)
\* rounded to Precision bits, ties to even, with the sign sg.
RoundSticky(sg, a, e, sticky) ==
  LET k == BitLen(a) - Precision IN
  IF k <= 0 THEN Canon(sg * a, e)
  ELSE LET q    == a \div Pow2(k)
           r    == a % Pow2(k)
           half == Pow2(k - 1)
           up   == \/ r > half
                   \/ r = half /\ sticky
                   \/ r = half /\ q % 2 = 1
       IN Canon(sg * (IF up THEN q + 1 ELSE q), e + k)

\* m * 2^e rounded to the nearest number.
Round(m, e) == RoundSticky(Sgn(m), Abs(m), e, FALSE)

FromInt(n) == Round(n, 0)

Zero == [m |-> 0, e |-> 0]

\* The numbers.  The operations below are functions on them, so that each
\* operand is evaluated once, and operators that apply the functions.
Float == [m : Int, e : Int]

FNegFn == [x \in Float |-> [m |-> -x.m, e |-> x.e]]

FNeg(x) == FNegFn[x]

\* Faulty variant of FAbs: the sign is kept.
FAbsConSigno(x) == x

FAbsFn == [x \in Float |-> [m |-> Abs(x.m), e |-> x.e]]

\* Math.abs
FAbs(x) == FAbsFn[x]

FMulFn == [x \in Float, y \in Float |-> Round(x.m * y.m, x.e + y.e)]

\* x * y
FMul(x, y) == FMulFn[x, y]

\* x + y.  The operands are aligned on the smaller exponent; when that does
\* not fit the operand of smaller exponent is below a quarter of the last
\* bit of the other one and the sum rounds to that other one.
FAddFn ==
  [x \in Float, y \in Float |->
     IF x.m = 0 THEN y
     ELSE IF y.m = 0 THEN x
     ELSE LET hi == IF x.e >= y.e THEN x ELSE y
              lo == IF x.e >= y.e THEN y ELSE x
              d  == hi.e - lo.e
          IN IF BitLen(Abs(hi.m)) + d <= 31
             THEN Round(hi.m * Pow2(d) + lo.m, lo.e)
             ELSE hi]

FAdd(x, y) == FAddFn[x, y]

\* x - y
FSub(x, y) == FAddFn[x, FNegFn[y]]

\* Whether x + y is computed without rounding.
ExactAddFn ==
  [x \in Float, y \in Float |->
     \/ x.m = 0
     \/ y.m = 0
     \/ LET d  == IF x.e >= y.e THEN x.e - y.e ELSE y.e - x.e
            hm == IF x.e >= y.e THEN x.m ELSE y.m
            lm == IF x.e >= y.e THEN y.m ELSE x.m
        IN /\ BitLen(Abs(hm)) + d <= 31
           /\ BitLen(Abs(Canon(hm * Pow2(d) + lm, 0).m)) <= Precision]

ExactAdd(x, y) == ExactAddFn[x, y]

\* x < y, x <= y: the sign of the rounded difference is the sign of the
\* exact one.
FLess(x, y) == FSub(x, y).m < 0

FLeq(x, y) == FSub(x, y).m <= 0

\* Quotient bits of (q + r/d), extended until q has Precision + 2 bits.
RECURSIVE DivBits(_, _, _, _)
DivBits(q, r, d, e) ==
  IF BitLen(q) >= Precision + 2 \/ r = 0 THEN [q |-> q, r |-> r, e |-> e]
  ELSE IF 2 * r >= d THEN DivBits(2 * q + 1, 2 * r - d, d, e - 1)
  ELSE DivBits(2 * q, 2 * r, d, e - 1)

FDivFn ==
  [x \in Float, y \in Float |->
     LET a == Abs(x.m)
         d == Abs(y.m)
         b == DivBits(a \div d, a % d, d, x.e - y.e)
     IN RoundSticky(Sgn(x.m) * Sgn(y.m), b.q, b.e, b.r # 0)]

\* x / y, y # 0
FDiv(x, y) == FDivFn[x, y]

\* Whether x is an integer, and its value as one.
IsInt(x) == x.e >= 0

ToIntFn == [x \in Float |-> x.m * Pow2(x.e)]

ToInt(x) == ToIntFn[x]

MathFloorFn ==
  [x \in Float |->
     IF x.e >= 0 THEN x
     ELSE IF -x.e > 30 THEN (IF x.m > 0 THEN Zero ELSE FromInt(-1))
     ELSE FromInt(x.m \div Pow2(-x.e))]

\* Math.floor
MathFloor(x) == MathFloorFn[x]

\* Math.ceil
MathCeil(x) == FNegFn[MathFloorFn[FNegFn[x]]]

\* The largest r in lo..hi with r * r <= n.
RECURSIVE Isqrt(_, _, _)
Isqrt(n, lo, hi) ==
  IF lo >= hi THEN lo
  ELSE LET mid == (lo + hi + 1) \div 2 IN
       IF mid * mid <= n THEN Isqrt(n, mid, hi) ELSE Isqrt(n, lo, mid - 1)

\* The integer root of the significand scaled to 29 or 30 bits, one more
\* bit, and the rest as a sticky tail.
MathSqrtFn ==
  [x \in Float |->
     LET s0  == 30 - BitLen(x.m)
         s   == IF (x.e - s0) % 2 = 0 THEN s0 ELSE s0 - 1
         big == x.m * Pow2(s)
         r   == Isqrt(big, 0, 46340)
         rem == big - r * r
         bit == IF rem > r THEN 1 ELSE 0
     IN RoundSticky(1, 2 * r + bit, ((x.e - s) \div 2) - 1,
                    bit = 1 \/ rem # 0)]

\* Math.sqrt, x > 0
MathSqrt(x) == MathSqrtFn[x]

----------------------------------------------------------------------------
\* Math.log, Math.cos, Math.PI and Math.exp.  The logarithm and the cosine
\* are tabulated, to 30 bits, on the arguments gaussianRandom gives them.

\* The values Math.random() returns in the model: 0, 1/8, 1/2 and 7/8.
U0 == Zero

U18 == [m |-> 1, e |-> -3]

U12 == [m |-> 1, e |-> -1]

U78 == [m |-> 7, e |-> -3]

UniformValues == {U0, U18, U12, U78}

MathPI == Round(843314857, -28)

Two == [m |-> 1, e |-> 1]

One == [m |-> 1, e |-> 0]

\* Math.log(u), u in {1/8, 1/2, 7/8}
MathLog(u) ==
  IF u = U18 THEN Round(-279097919, -27)
  ELSE IF u = U12 THEN Round(-372130559, -29)
  ELSE Round(-143378241, -30)

\* Math.cos(x), x = 2.0 * Math.PI * v with v in {1/8, 1/2, 7/8}
MathCos(x) ==
  IF x = FMul(FMul(Two, MathPI), U12) THEN FNeg(One)
  ELSE Round(759250125, -30)

MathExpFn ==
  [x \in Float |->
     FAdd(FAdd(FAdd(One, x), FDiv(FMul(x, x), Two)),
          FDiv(FMul(FMul(x, x), x), FromInt(6)))]

\* Math.exp(x) for the small |x| of a daily step: the Taylor polynomial
\* 1 + x + x^2/2 + x^3/6, evaluated in the model's arithmetic.
MathExp(x) == MathExpFn[x]

----------------------------------------------------------------------------
\* The random source: Math.random() returns the values of the cyclic
\* sequence src, one per call; pos counts the calls made so far.

MathRandom(src, pos) == src[(pos % Len(src)) + 1]

\* while (u === 0) u = Math.random(): the first non-zero value at or after
\* pos, and the position after it.
RECURSIVE DrawNonZero(_, _)
DrawNonZero(src, pos) ==
  IF MathRandom(src, pos) # U0
  THEN [val |-> MathRandom(src, pos), pos |-> pos + 1]
  ELSE DrawNonZero(src, pos + 1)

\* gaussianRandom(): the normal draw and the position of the source after it.
gaussianRandom(src, pos) ==
  LET u == DrawNonZero(src, pos)
      v == DrawNonZero(src, u.pos)
  IN [val |-> FMul(MathSqrt(FMul(FNeg(Two), MathLog(u.val))),
                   MathCos(FMul(FMul(Two, MathPI), v.val))),
      pos |-> v.pos]

----------------------------------------------------------------------------
\* mean and percentile

\* The left-to-right sum sum + values[lo] + ... + values[hi], lo <= hi.
RECURSIVE SumRange(_, _, _, _)
SumRange(values, lo, hi, sum) ==
  IF lo = hi THEN FAdd(sum, values[lo])
  ELSE LET mid  == (lo + hi) \div 2
           left == SumRange(values, lo, mid, sum)
       IN \* the test evaluates the left part before the right part uses it
          IF left.m = 0 THEN SumRange(values, mid + 1, hi, Zero)
          ELSE SumRange(values, mid + 1, hi, left)

\* values.reduce((sum, v) => sum + v, 0) / values.length, values non-empty
mean(values) ==
  FDiv(SumRange(values, 1, Len(values), Zero), FromInt(Len(values)))

\* Whether values[j] stands before values[k] once sorted with the
\* comparator (a, b) => a - b by a stable sort.
Before(values, j, k) ==
  LET c == FSub(values[j], values[k]).m IN c < 0 \/ (c = 0 /\ j < k)

\* Faulty variant of SortAsc: the order of the caller is kept.
SinOrdenar(values) == values

\* [...values].sort((a, b) => a - b)
SortAsc(values) ==
  LET n    == Len(values)
      rank == SubSeq([k \in 1..n |->
                        Cardinality({j \in 1..n : Before(values, j, k)})], 1, n)
  IN [r \in 1..n |-> values[CHOOSE k \in 1..n : rank[k] = r - 1]]

Hundred == FromInt(100)

\* sorted[lower] * (1 - weight) + sorted[upper] * weight
Blend(atLower, atUpper, weight) ==
  FAdd(FMul(atLower, FSub(One, weight)), FMul(atUpper, weight))

\* The value of percentile at the fractional rank pos of the sorted copy.
AtRank(sorted, pos) ==
  [x \in Float |->
     IF MathFloor(x) = MathCeil(x) THEN sorted[ToInt(MathFloor(x)) + 1]
     ELSE Blend(sorted[ToInt(MathFloor(x)) + 1],
                sorted[ToInt(MathCeil(x)) + 1],
                FSub(x, MathFloor(x)))][pos]

\* The interpolation of percentile on the sorted copy.
Interpolate(sorted, p) ==
  AtRank(sorted, FMul(FDiv(p, Hundred), FromInt(Len(sorted) - 1)))

\* Faulty variant of PercentileCall: values.sort(...) on the caller's array.
PercentileEnSitio(values, p) ==
  [ret |-> Interpolate(SortAsc(values), p), values |-> SortAsc(values)]

\* percentile(values, p) on a non-empty array: the value returned, and the
\* caller's array after the call (the sort works on a copy).
PercentileCall(values, p) ==
  [ret |-> Interpolate(SortAsc(values), p), values |-> values]

percentile(values, p) == PercentileCall(values, p).ret

----------------------------------------------------------------------------
\* The request body and its validation

\* A field of the parsed JSON body: a number, or a value of another type.
Num(x) == [tipo |-> "number", v |-> x]

NoNum == [tipo |-> "string", v |-> Zero]

Pasa == [status |-> 0, error |-> ""]

Rechazo(msg) == [status |-> 400, error |-> msg]

ErrorInterno == [status |-> 500, error |-> "Error interno del servidor"]

\* The error messages, written without their accents.
MsgTipo == "Parametros invalidos"

MsgPrecio == "El precio actual debe ser mayor que 0"

MsgVolatilidad == "La volatilidad debe estar entre 0 y 200"

MsgDias == "Los dias deben estar entre 1 y 365"

MsgSimulaciones == "Las simulaciones deben estar entre 100 y 10000"

\* Faulty variant of Validar: the upper limits are excluded.
ValidarLimitesExcluidos(b) ==
  IF \/ b.precio_actual.tipo # "number"
     \/ b.volatilidad.tipo # "number"
     \/ b.dias.tipo # "number"
     \/ b.simulaciones.tipo # "number"
  THEN Rechazo(MsgTipo)
  ELSE IF FLeq(b.precio_actual.v, Zero) THEN Rechazo(MsgPrecio)
  ELSE IF FLess(b.volatilidad.v, Zero) \/ FLeq(FromInt(200), b.volatilidad.v)
  THEN Rechazo(MsgVolatilidad)
  ELSE IF FLess(b.dias.v, One) \/ FLeq(FromInt(365), b.dias.v)
  THEN Rechazo(MsgDias)
  ELSE IF \/ FLess(b.simulaciones.v, Hundred)
          \/ FLeq(FromInt(10000), b.simulaciones.v)
  THEN Rechazo(MsgSimulaciones)
  ELSE Pasa

\* Faulty variant of Validar: the range checks run from the last field to
\* the first.
ValidarOrdenInverso(b) ==
  IF \/ b.precio_actual.tipo # "number"
     \/ b.volatilidad.tipo # "number"
     \/ b.dias.tipo # "number"
     \/ b.simulaciones.tipo # "number"
  THEN Rechazo(MsgTipo)
  ELSE IF \/ FLess(b.simulaciones.v, Hundred)
          \/ FLess(FromInt(10000), b.simulaciones.v)
  THEN Rechazo(MsgSimulaciones)
  ELSE IF FLess(b.dias.v, One) \/ FLess(FromInt(365), b.dias.v)
  THEN Rechazo(MsgDias)
  ELSE IF FLess(b.volatilidad.v, Zero) \/ FLess(FromInt(200), b.volatilidad.v)
  THEN Rechazo(MsgVolatilidad)
  ELSE IF FLeq(b.precio_actual.v, Zero) THEN Rechazo(MsgPrecio)
  ELSE Pasa

\* The checks of POST before the simulation: the rejection of the first
\* one that fails, or Pasa.
Validar(b) ==
  IF \/ b.precio_actual.tipo # "number"
     \/ b.volatilidad.tipo # "number"
     \/ b.dias.tipo # "number"
     \/ b.simulaciones.tipo # "number"
  THEN Rechazo(MsgTipo)
  ELSE IF FLeq(b.precio_actual.v, Zero) THEN Rechazo(MsgPrecio)
  ELSE IF FLess(b.volatilidad.v, Zero) \/ FLess(FromInt(200), b.volatilidad.v)
  THEN Rechazo(MsgVolatilidad)
  ELSE IF FLess(b.dias.v, One) \/ FLess(FromInt(365), b.dias.v)
  THEN Rechazo(MsgDias)
  ELSE IF \/ FLess(b.simulaciones.v, Hundred)
          \/ FLess(FromInt(10000), b.simulaciones.v)
  THEN Rechazo(MsgSimulaciones)
  ELSE Pasa

----------------------------------------------------------------------------
\* The simulation

valorBase(b) == b.precio_actual.v

volDiaria(b) == FDiv(FDiv(b.volatilidad.v, Hundred), MathSqrt(FromInt(252)))

deltaT == FDiv(One, FromInt(252))

tasaInteres == Zero

pasosTiempo(b) == b.dias.v

numTrayectorias(b) == b.simulaciones.v

\* Faulty variant of NuevaMatriz: the rows are filled with 1.
NuevaMatrizUnidad(n, len, valor) == [r \in 1..n |-> [c \in 1..len |-> One]]

\* Array.from({ length: n }, () => Array(len).fill(valor)) for an integer
\* len: n rows (n already truncated to an integer) of len entries.
NuevaMatriz(n, len, valor) == [r \in 1..n |-> [c \in 1..len |-> valor]]

\* Faulty variant of PasoGBM: the exponent itself is the factor.
PasoSinExp(prev, vol, ruido) ==
  LET exponencial ==
        FMul(FSub(tasaInteres, FMul(FMul([m |-> 1, e |-> -1], vol), vol)),
             deltaT)
      gaussiano == FMul(FMul(vol, MathSqrt(deltaT)), ruido)
  IN FMul(prev, FAdd(exponencial, gaussiano))

\* One step of a trajectory: the price after prev, given the normal draw.
PasoGBM(prev, vol, ruido) ==
  LET exponencial ==
        FMul(FSub(tasaInteres, FMul(FMul([m |-> 1, e |-> -1], vol), vol)),
             deltaT)
      gaussiano == FMul(FMul(vol, MathSqrt(deltaT)), ruido)
  IN FMul(prev, MathExp(FAdd(exponencial, gaussiano)))

\* Faulty variant of SiguePaso: paso < pasosTiempo.
SiguePasoEstricto(k, b) == FLess(FromInt(k), pasosTiempo(b))

\* The test of the loop over the steps, paso <= pasosTiempo.
SiguePaso(k, b) == FLeq(FromInt(k), pasosTiempo(b))

\* The test of the loop over the trajectories, i < numTrayectorias.
SigueTrayectoria(k, b) == FLess(FromInt(k), numTrayectorias(b))

\* The column of the matrix at step k (k from 0).
Columna(matriz, k) == [r \in 1..Len(matriz) |-> matriz[r][k + 1]]

\* Math.min(...values), Math.max(...values)
MathMin(values) ==
  values[CHOOSE k \in 1..Len(values) :
           \A j \in 1..Len(values) : FLeq(values[k], values[j])]

MathMax(values) ==
  values[CHOOSE k \in 1..Len(values) :
           \A j \in 1..Len(values) : FLeq(values[j], values[k])]

\* The relative changes of the final prices.
Cambios(finales, base) ==
  [r \in 1..Len(finales) |-> FDiv(FSub(finales[r], base), base)]

\* The 5th percentile of the relative changes of the final prices.
Riesgo(matriz, b) ==
  LET preciosFinales == Columna(matriz, ToInt(pasosTiempo(b)))
  IN percentile(Cambios(preciosFinales, valorBase(b)), FromInt(5))

\* The response of a completed simulation.
Resultado(matriz, prom, p5, p95, b, riesgo) ==
  LET preciosFinales == Columna(matriz, ToInt(pasosTiempo(b)))
  IN [status                |-> 200,
      simulaciones          |-> matriz,
      promedio              |-> prom,
      percentil_5           |-> p5,
      percentil_95          |-> p95,
      precio_final_promedio |-> mean(preciosFinales),
      precio_final_minimo   |-> MathMin(preciosFinales),
      precio_final_maximo   |-> MathMax(preciosFinales),
      var_95                |-> FMul(valorBase(b), FAbs(riesgo)),
      var_percentaje        |-> FMul(riesgo, Hundred)]

----------------------------------------------------------------------------
\* Bounds of the model

\* The simulation is followed for requests of at most this many days ...
MaxDiasModelo == 2

\* ... and at most this many trajectories.
MaxTrayectoriasModelo == 101

\* Longest array given to mean and percentile on their own.
MaxLen == 4

----------------------------------------------------------------------------
\* State

VARIABLES
  body,             \* the parsed request body
  rng,              \* the sequence Math.random() cycles through
  rngPos,           \* calls of Math.random() so far in this invocation
  pc,               \* where the handler is
  simulacionesArr,  \* the matrix of trajectories
  paso,             \* counter of the loops over the steps
  i,                \* counter of the loop over the trajectories
  promedio,         \* per-step statistics
  percentil_5,
  percentil_95,
  pRiesgo,          \* 5th percentile of the final relative changes
  resp,             \* the response, once sent
  primera,          \* the response of the first invocation, when repeated
  valores,          \* mean and percentile on their own: the caller's array,
  original,         \*   the array before it was permuted,
  pct,              \*   the percentile asked,
  resMean,          \*   the result of mean,
  resPct            \*   the result of percentile

handler == <<body, rng, rngPos, pc, simulacionesArr, paso, i, promedio,
             percentil_5, percentil_95, pRiesgo, resp, primera>>

puros == <<valores, original, pct, resMean, resPct>>

vars == <<handler, puros>>

Ninguna == [status |-> 0, error |-> ""]

\* The record of a call of mean or percentile on its own: whether it was
\* made, the array as it was passed and the value returned.
SinLlamar == [called |-> FALSE, arg |-> <<>>, val |-> Zero]

Llamado(a, x) == [called |-> TRUE, arg |-> a, val |-> x]

\* Request fields of the model: around every limit of the validation.
Precios == {NoNum, Num(FromInt(-1)), Num(Zero), Num(FromInt(100)),
            Num([m |-> 3, e |-> -1])}

Volatilidades == {NoNum, Num(FromInt(-1)), Num(Zero), Num(FromInt(20)),
                  Num(FromInt(200)), Num(FromInt(201))}

Dias == {NoNum, Num(Zero), Num(One), Num([m |-> 3, e |-> -1]),
         Num(FromInt(MaxDiasModelo)), Num(FromInt(365)), Num(FromInt(366))}

Simulaciones == {NoNum, Num(FromInt(99)), Num(Hundred),
                 Num([m |-> 201, e |-> -1]),
                 Num(FromInt(MaxTrayectoriasModelo)),
                 Num(FromInt(10000)), Num(FromInt(10001))}

Bodies == [precio_actual : Precios, volatilidad : Volatilidades,
           dias : Dias, simulaciones : Simulaciones]

\* Sequences of the random source: with and without zeros, of mixed and of
\* constant sign of the normal draw.
Fuentes == { <<U18, U12, U78>>,
             <<U0, U12, U0, U0, U18>>,
             <<U18, U78>> }

HandlerInit ==
  /\ rngPos = 0
  /\ pc = "recibido"
  /\ simulacionesArr = <<>>
  /\ paso = 0
  /\ i = 0
  /\ promedio = <<>>
  /\ percentil_5 = <<>>
  /\ percentil_95 = <<>>
  /\ pRiesgo = Zero
  /\ resp = Ninguna
  /\ primera = Ninguna

PurosIdle ==
  /\ valores = <<>>
  /\ original = <<>>
  /\ pct = Zero
  /\ resMean = SinLlamar
  /\ resPct = SinLlamar

Init ==
  /\ body \in Bodies
  /\ rng \in Fuentes
  /\ HandlerInit
  /\ PurosIdle

----------------------------------------------------------------------------
\* POST, step by step

Responder(r) ==
  /\ resp' = r
  /\ pc' = "respondido"

\* Lines 38-80: parse the body and validate it.
Validacion ==
  /\ pc = "recibido"
  /\ IF Validar(body).status = 400
     THEN Responder(Validar(body))
     ELSE pc' = "validado" /\ resp' = resp
  /\ UNCHANGED <<body, rng, rngPos, simulacionesArr, paso, i, promedio,
                 percentil_5, percentil_95, pRiesgo, primera, puros>>

\* Whether the model follows the simulation of the request.
EnModelo(b) ==
  /\ FLeq(pasosTiempo(b), FromInt(MaxDiasModelo))
  /\ FLeq(numTrayectorias(b), FromInt(MaxTrayectoriasModelo))

\* Lines 82-97: the matrix, and the first tests of the simulation loops.
\* Array(pasosTiempo + 1) throws a RangeError when pasosTiempo + 1 is no
\* integer, which the catch answers with 500.
CrearMatriz ==
  /\ pc = "validado"
  /\ EnModelo(body)
  /\ IF IsInt(FAdd(pasosTiempo(body), One))
     THEN /\ simulacionesArr' =
               NuevaMatriz(ToInt(MathFloor(numTrayectorias(body))),
                           ToInt(FAdd(pasosTiempo(body), One)),
                           valorBase(body))
          /\ i' = 0
          /\ IF SiguePaso(1, body) /\ SigueTrayectoria(0, body)
             THEN paso' = 1 /\ pc' = "simulando"
             ELSE paso' = 0 /\ pc' = "estadisticas"
          /\ resp' = resp
     ELSE /\ Responder(ErrorInterno)
          /\ UNCHANGED <<simulacionesArr, paso, i>>
  /\ UNCHANGED <<body, rng, rngPos, promedio, percentil_5, percentil_95,
                 pRiesgo, primera, puros>>

\* Lines 97-108: one iteration of the inner loop, and the loop tests that
\* follow it.  simulacionesArr[i] is undefined past the last row: reading
\* its entry throws a TypeError, which the catch answers with 500.
PasoSimulacion ==
  /\ pc = "simulando"
  /\ LET g == gaussianRandom(rng, rngPos) IN
     /\ rngPos' = g.pos
     /\ IF i + 1 > Len(simulacionesArr)
        THEN /\ Responder(ErrorInterno)
             /\ UNCHANGED <<simulacionesArr, paso, i>>
        ELSE /\ simulacionesArr' =
                  [simulacionesArr EXCEPT ![i + 1][paso + 1] =
                     PasoGBM(simulacionesArr[i + 1][paso], volDiaria(body),
                             g.val)]
             /\ resp' = resp
             /\ IF SigueTrayectoria(i + 1, body)
                THEN i' = i + 1 /\ UNCHANGED <<paso, pc>>
                ELSE IF SiguePaso(paso + 1, body)
                THEN i' = 0 /\ paso' = paso + 1 /\ pc' = pc
                ELSE i' = 0 /\ paso' = 0 /\ pc' = "estadisticas"
  /\ UNCHANGED <<body, rng, promedio, percentil_5, percentil_95, pRiesgo,
                 primera, puros>>

\* Faulty variant of EstadisticasVacias: an array that outlives the
\* invocation.
EstadisticasCompartidas == promedio

\* The statistics arrays as declared in lines 111-113.
EstadisticasVacias == <<>>

\* Lines 111-120: one iteration of the statistics loop; the first one
\* finds the arrays as their declarations leave them.
EstadisticasPaso ==
  /\ pc = "estadisticas"
  /\ LET columna == SubSeq(Columna(simulacionesArr, paso), 1,
                            Len(simulacionesArr))
         previo(arr) == IF paso = 0 THEN EstadisticasVacias ELSE arr
     IN
     /\ promedio' = Append(previo(promedio), mean(columna))
     /\ percentil_5' = Append(previo(percentil_5),
                              percentile(columna, FromInt(5)))
     /\ percentil_95' = Append(previo(percentil_95),
                               percentile(columna, FromInt(95)))
  /\ paso' = paso + 1
  /\ pc' = IF SiguePaso(paso + 1, body) THEN "estadisticas" ELSE "resumen"
  /\ UNCHANGED <<body, rng, rngPos, simulacionesArr, i, pRiesgo, resp,
                 primera, puros>>

\* Lines 122-144: final prices, value at risk and the response.
Resumen ==
  /\ pc = "resumen"
  /\ LET riesgo == Riesgo(simulacionesArr, body) IN
     /\ pRiesgo' = riesgo
     /\ Responder(Resultado(simulacionesArr, promedio, percentil_5,
                            percentil_95, body, riesgo))
  /\ UNCHANGED <<body, rng, rngPos, simulacionesArr, paso, i, promedio,
                 percentil_5, percentil_95, primera, puros>>

Next ==
  \/ Validacion
  \/ CrearMatriz
  \/ PasoSimulacion
  \/ EstadisticasPaso
  \/ Resumen

Spec == Init /\ [][Next]_vars

----------------------------------------------------------------------------
\* The same request once more: POST is invoked again with the same body and
\* with the random source replaying the same sequence.  Nothing is reset
\* for it but what the handler itself initialises.

CuerposRepetidos ==
  [precio_actual : {Num(FromInt(100)), Num([m |-> 3, e |-> -1])},
   volatilidad   : {Num(FromInt(20)), Num(FromInt(200))},
   dias          : {Num(Zero), Num(One), Num([m |-> 3, e |-> -1]),
                    Num(FromInt(MaxDiasModelo))},
   simulaciones  : {Num(Hundred), Num([m |-> 201, e |-> -1]),
                    Num(FromInt(MaxTrayectoriasModelo))}]

InitRepetir ==
  /\ body \in CuerposRepetidos
  /\ rng \in Fuentes
  /\ HandlerInit
  /\ PurosIdle

Reintentar ==
  /\ pc = "respondido"
  /\ primera = Ninguna
  /\ primera' = resp
  /\ resp' = Ninguna
  /\ rngPos' = 0
  /\ pc' = "recibido"
  /\ UNCHANGED <<body, rng, simulacionesArr, paso, i, promedio, percentil_5,
                 percentil_95, pRiesgo, puros>>

NextRepetir ==
  \/ Validacion
  \/ CrearMatriz
  \/ PasoSimulacion
  \/ EstadisticasPaso
  \/ Resumen
  \/ Reintentar

SpecRepetir == InitRepetir /\ [][NextRepetir]_vars

----------------------------------------------------------------------------
\* mean and percentile on their own: a caller holds an array, permutes it,
\* and calls the two functions on it.

\* The smallest step of the arithmetic below 1: 1 + Tiny is rounded.
Tiny == [m |-> 1, e |-> -Precision]

ValoresPuros == {One, Two, FromInt(3), FromInt(4), Tiny}

Porcentajes == {Zero, FromInt(5), FromInt(50), FromInt(95), Hundred}

Ordenada(s) == \A k \in 1..(Len(s) - 1) : FLeq(s[k], s[k + 1])

Arreglos == UNION {[1..n -> ValoresPuros] : n \in 1..MaxLen}

SinCuerpo == [precio_actual |-> NoNum, volatilidad |-> NoNum,
              dias |-> NoNum, simulaciones |-> NoNum]

InitPuro ==
  /\ original \in {s \in Arreglos : Ordenada(s)}
  /\ valores = original
  /\ pct \in Porcentajes
  /\ resMean = SinLlamar
  /\ resPct = SinLlamar
  /\ body = SinCuerpo
  /\ rng = <<U12>>
  /\ HandlerInit

\* The caller exchanges two neighbours of its array.
Permutar ==
  /\ \E k \in 1..(Len(valores) - 1) :
       valores' = [valores EXCEPT ![k] = valores[k + 1],
                                  ![k + 1] = valores[k]]
  /\ resMean' = SinLlamar
  /\ resPct' = SinLlamar
  /\ UNCHANGED <<original, pct, handler>>

LlamarMean ==
  /\ ~resMean.called
  /\ resMean' = Llamado(valores, mean(valores))
  /\ UNCHANGED <<valores, original, pct, resPct, handler>>

LlamarPercentile ==
  /\ ~resPct.called
  /\ LET llamada == PercentileCall(valores, pct) IN
     /\ resPct' = Llamado(valores, llamada.ret)
     /\ valores' = llamada.values
  /\ UNCHANGED <<original, pct, resMean, handler>>

NextPuro ==
  \/ Permutar
  \/ LlamarMean
  \/ LlamarPercentile

SpecPuro == InitPuro /\ [][NextPuro]_vars

----------------------------------------------------------------------------
\* Properties of POST

\* The four fields of the body are numbers.
Numerico(b) ==
  /\ b.precio_actual.tipo = "number"
  /\ b.volatilidad.tipo = "number"
  /\ b.dias.tipo = "number"
  /\ b.simulaciones.tipo = "number"

PrecioFuera(b) == ~(b.precio_actual.v.m > 0)

VolatilidadFuera(b) ==
  FLess(b.volatilidad.v, Zero) \/ FLess(FromInt(200), b.volatilidad.v)

DiasFuera(b) == FLess(b.dias.v, One) \/ FLess(FromInt(365), b.dias.v)

SimulacionesFuera(b) ==
  FLess(b.simulaciones.v, Hundred) \/ FLess(FromInt(10000), b.simulaciones.v)

\* A field is outside its range.
FueraDeRango(b) ==
  PrecioFuera(b) \/ VolatilidadFuera(b) \/ DiasFuera(b) \/ SimulacionesFuera(b)

\* dias and simulaciones are integers.
Enteros(b) == IsInt(b.dias.v) /\ IsInt(b.simulaciones.v)

\* A valid request: numbers, in range, dias and simulaciones integers.
PeticionValida(b) == Numerico(b) /\ ~FueraDeRango(b) /\ Enteros(b)

\* C1: every entry of the trajectory matrix is strictly positive, after
\* the initialisation, after every step update, and in the result.
PreciosPositivos ==
  /\ \A r \in 1..Len(simulacionesArr) :
       \A c \in 1..Len(simulacionesArr[r]) : simulacionesArr[r][c].m > 0
  /\ resp.status = 200 =>
       \A r \in 1..Len(resp.simulaciones) :
         \A c \in 1..Len(resp.simulaciones[r]) :
           resp.simulaciones[r][c].m > 0

\* A result whose trajectories both rose and fell from the current price.
PreciosPositivosWitness ==
  /\ resp.status = 200
  /\ \E r \in 1..Len(resp.simulaciones) :
       FLess(resp.simulaciones[r][2], valorBase(body))
  /\ \E r \in 1..Len(resp.simulaciones) :
       FLess(valorBase(body), resp.simulaciones[r][2])

\* C2: a result has exactly simulaciones trajectories of dias + 1 prices
\* and three statistics of dias + 1 entries, and every valid request the
\* model follows to its response has a result.
FormaResultado ==
  /\ resp.status = 200 =>
       /\ Enteros(body)
       /\ Len(resp.simulaciones) = ToInt(body.simulaciones.v)
       /\ \A r \in 1..Len(resp.simulaciones) :
            Len(resp.simulaciones[r]) = ToInt(body.dias.v) + 1
       /\ Len(resp.promedio) = ToInt(body.dias.v) + 1
       /\ Len(resp.percentil_5) = ToInt(body.dias.v) + 1
       /\ Len(resp.percentil_95) = ToInt(body.dias.v) + 1
  /\ pc = "respondido" /\ PeticionValida(body) => resp.status = 200

\* A result of more than 100 trajectories over more than one day.
FormaResultadoWitness ==
  /\ resp.status = 200
  /\ FLess(Hundred, body.simulaciones.v)
  /\ FLess(One, body.dias.v)
  /\ Len(resp.simulaciones) > 100
  /\ Len(resp.promedio) > 2

\* C3: index 0 of every trajectory is precio_actual, from the
\* initialisation on, through every step of the simulation, and in the
\* result.
ColumnaCero ==
  /\ \A r \in 1..Len(simulacionesArr) :
       simulacionesArr[r][1] = body.precio_actual.v
  /\ resp.status = 200 =>
       \A r \in 1..Len(resp.simulaciones) :
         resp.simulaciones[r][1] = body.precio_actual.v

\* A result of several days whose prices after the first two days all
\* differ from precio_actual.
ColumnaCeroWitness ==
  /\ resp.status = 200
  /\ FLess(One, body.dias.v)
  /\ \A r \in 1..Len(resp.simulaciones) :
       /\ resp.simulaciones[r][2] # body.precio_actual.v
       /\ resp.simulaciones[r][3] # body.precio_actual.v

\* C4: once validated, a request of four numbers is answered 400 exactly
\* when a field is outside its range, the limits themselves being inside;
\* and a request inside the ranges that the model follows to its response
\* has a result.
LimitesValidacion ==
  Numerico(body) /\ pc # "recibido" =>
    /\ FueraDeRango(body) <=> resp.status = 400
    /\ FueraDeRango(body) => pc = "respondido"
    /\ pc = "respondido" /\ ~FueraDeRango(body) /\ Enteros(body) =>
         resp.status = 200

\* A result for volatilidad = 200, dias = 1 and simulaciones = 100.
LimitesValidacionWitness ==
  /\ resp.status = 200
  /\ body.volatilidad.v = FromInt(200)
  /\ body.dias.v = One
  /\ body.simulaciones.v = Hundred

\* The message of the first check that fails, in the order type,
\* precio_actual, volatilidad, dias, simulaciones; "" when none fails.
PrimerFallo(b) ==
  IF ~Numerico(b) THEN MsgTipo
  ELSE IF PrecioFuera(b) THEN MsgPrecio
  ELSE IF VolatilidadFuera(b) THEN MsgVolatilidad
  ELSE IF DiasFuera(b) THEN MsgDias
  ELSE IF SimulacionesFuera(b) THEN MsgSimulaciones
  ELSE ""

\* C5: a request failing a check is answered by the rejection of the first
\* check it fails, in the fixed order, and by nothing else; for a rejected
\* request no random value is drawn and no matrix is built.
OrdenValidacion ==
  /\ pc # "recibido" /\ PrimerFallo(body) # "" =>
       /\ pc = "respondido"
       /\ resp = [status |-> 400, error |-> PrimerFallo(body)]
  /\ resp.status = 400 =>
       /\ resp.error = PrimerFallo(body)
       /\ rngPos = 0
       /\ simulacionesArr = <<>>
       /\ promedio = <<>>

\* A request violating the ranges of precio_actual, dias and simulaciones
\* at once, answered for precio_actual.
OrdenValidacionWitness ==
  /\ resp.status = 400
  /\ Numerico(body)
  /\ PrecioFuera(body) /\ DiasFuera(body) /\ SimulacionesFuera(body)
  /\ resp.error = MsgPrecio

\* C6: a request of four numbers in range whose dias or simulaciones is
\* no integer is answered with a 400 rejection.
EnterosExigidos ==
  pc = "respondido" /\ Numerico(body) /\ ~FueraDeRango(body)
     /\ ~Enteros(body) =>
    resp.status = 400

VaRPositivoAlcanzado == resp.status = 200 /\ pRiesgo.m > 0

VaRCeroAlcanzado == resp.status = 200 /\ pRiesgo.m = 0

\* C10: the second invocation, with the same body and the same sequence
\* of the random source, sends the response of the first one, equal in
\* every field.
Determinismo ==
  primera.status # 0 /\ pc = "respondido" => resp = primera

\* Two results of a request of several days whose random source returned
\* zeros that gaussianRandom drew again.
DeterminismoWitness ==
  /\ primera.status = 200
  /\ pc = "respondido"
  /\ resp.status = 200
  /\ FLess(One, body.dias.v)
  /\ \E k \in 1..Len(rng) : rng[k] = U0
  /\ rngPos > 2 * 2 * Len(simulacionesArr)

----------------------------------------------------------------------------
\* Properties of mean and percentile

\* The element of rank k (k from 1) of values in ascending order: the value
\* with fewer than k elements below it and at least k elements not above.
DeRango(values, k) ==
  CHOOSE v \in {values[j] : j \in 1..Len(values)} :
    /\ Cardinality({j \in 1..Len(values) : FLess(values[j], v)}) < k
    /\ Cardinality({j \in 1..Len(values) : FLeq(values[j], v)}) >= k

\* The linear interpolation between closest ranks (type 7).
Tipo7(values, p) ==
  LET n     == Len(values)
      pos   == FMul(FDiv(p, Hundred), FromInt(n - 1))
      lower == MathFloor(pos)
      upper == FNeg(MathFloor(FNeg(pos)))
      w     == FSub(pos, lower)
  IN IF lower = upper THEN DeRango(values, ToInt(lower) + 1)
     ELSE FAdd(FMul(DeRango(values, ToInt(lower) + 1), FSub(One, w)),
               FMul(DeRango(values, ToInt(upper) + 1), w))

\* C7: percentile returns the linear interpolation of type 7 for every
\* array and every p; at p = 50 it returns the middle element of an array
\* of odd length; percentile([1,2,3], 50) = 2 and
\* percentile([1,2,3,4], 50) = 2.5.
PercentilTipo7 ==
  /\ resPct.called =>
       /\ resPct.val = Tipo7(resPct.arg, pct)
       /\ pct = FromInt(50) /\ Len(resPct.arg) % 2 = 1 =>
            resPct.val = DeRango(resPct.arg, (Len(resPct.arg) + 1) \div 2)
  /\ percentile(<<One, Two, FromInt(3)>>, FromInt(50)) = Two
  /\ percentile(<<One, Two, FromInt(3), FromInt(4)>>, FromInt(50))
       = [m |-> 5, e |-> -1]

\* percentile at 50 of 4, 2, 3, 1, in that order, returned 2.5.
PercentilTipo7Witness ==
  /\ resPct.called
  /\ resPct.arg = <<FromInt(4), Two, FromInt(3), One>>
  /\ pct = FromInt(50)
  /\ resPct.val = [m |-> 5, e |-> -1]

\* No addition of the sum of mean on values is rounded.
SumaExacta(values) ==
  LET pre[k \in 0..Len(values)] ==
        IF k = 0 THEN Zero ELSE FAdd(pre[k - 1], values[k])
  IN \A k \in 1..Len(values) : ExactAdd(pre[k - 1], values[k])

\* percentile returns for a permutation what it returns for the array
\* itself, and leaves the array it is passed as it was.
PercentilInvariante ==
  resPct.called =>
    /\ resPct.val = percentile(original, pct)
    /\ valores = resPct.arg

\* C8 as stated: mean and percentile return for every permutation of an
\* array what they return for the array itself, and percentile leaves the
\* array it is passed as it was.
PermutacionInvariante ==
  /\ resMean.called => resMean.val = mean(original)
  /\ PercentilInvariante

\* C8, amended: percentile returns the same for every permutation and
\* leaves the array it is passed as it was; mean returns the same for two
\* permutations whenever no addition of either sum is rounded.
PermutacionInvarianteExacta ==
  /\ resMean.called /\ SumaExacta(resMean.arg) /\ SumaExacta(original) =>
       resMean.val = mean(original)
  /\ PercentilInvariante

\* mean and percentile both called on 3, 1, 4, 2, a permutation of
\* 1, 2, 3, 4 whose sums are exact.
PermutacionInvarianteWitness ==
  /\ resMean.called
  /\ resPct.called
  /\ original = <<One, Two, FromInt(3), FromInt(4)>>
  /\ valores = <<FromInt(3), One, FromInt(4), Two>>
  /\ SumaExacta(valores)
  /\ pct = FromInt(95)

\* mean called on a permutation in which an addition is rounded, returning
\* another value than for the array itself.
MediaDependeDelOrden ==
  /\ resMean.called
  /\ ~SumaExacta(resMean.arg)
  /\ resMean.val # mean(original)

====
